---- MODULE Spec2Model ----
(***************************************************************************)
(* The WhatsApp gateway: the campaign dispatcher                           *)
(* (src/src/modules/campaigns/campaigns.routes.ts) with the part of the    *)
(* gateway client it depends on (src/unnamed/part_000: the session cache   *)
(* behind getStatus), and the webhook receiver and the webhook relay       *)
(* (src/src/modules/webhooks/webhooks.routes.ts).                          *)
(*                                                                         *)
(* The process is single-threaded and asynchronous: every `await` is a     *)
(* suspension point.  A store operation takes effect atomically in the     *)
(* store, and the code after the await (the continuation) runs in a later  *)
(* turn of the event loop.  Each action below is one such turn or one      *)
(* store operation.  Spec is the dispatcher, SpecIngest the receiver and   *)
(* SpecRelay the relay, each on its own; SpecPipeline is the receiver in   *)
(* front of the relay, SpecStreams the receiver and the gateway client in  *)
(* front of the SSE streams, SpecVerify the verification request.          *)
(* SpecStatus is the receiver of status updates of every provider status,  *)
(* SpecMedia the receiver with the media downloads it starts, SpecGateway  *)
(* the gateway client with the credentials of the instance, SpecFaults the *)
(* dispatcher on a store that can reject the writes of the loop.           *)
(***************************************************************************)
EXTENDS Integers, FiniteSets, Sequences, Bags, TLC

\* ---------------------------------------------------------------- bounds
MaxMsgs == 2      \* largest number of recipients of the campaign
MaxReq  == 2      \* HTTP requests in flight at the same time
MaxProc == 2      \* processCampaign invocations that can be alive at once
MaxSends == 2     \* cap of the per-message history counter of gateway calls
MaxCalls == 2     \* POST /webhook invocations in flight at the same time
MaxRetry == 3     \* largest env.webhookRetryAttempts
MaxStreams == 1   \* SSE streams open at the same time, per instance id
MaxTokens == 2    \* values the waAccessToken of the instance takes in turn
MaxGw == 2        \* gateway calls in flight at the same time

CampaignId == "c1"
InstanceId == "i1"

MsgIds  == 1..MaxMsgs          \* message rows in createdAt order
ProcIds == 1..MaxProc

Kinds == {"start", "pause", "resume", "cancel"}

VARIABLES
    campaign,           \* the Campaign row (status "NONE": not created yet)
    messages,           \* status of each Message row of the campaign
    runningProcessors,  \* the in-memory Set<string> of campaign ids
    sessions,           \* OfficialWhatsAppManager.sessions (keys only)
    proc,               \* the processCampaign invocations
    req,                \* the HTTP handler invocations in flight (a bag)
    response,           \* the HTTP response that leaves in this step, if any
    attempts,           \* history: calls of sendText/sendMedia per message
    cancelledRunning,   \* history: a cancel was applied to a RUNNING row
    stopLog,            \* history: sends since the last pause or cancel
    sendLog,            \* history: the messages the provider took, and refused
    credentials,        \* the stored waAccessToken of the instance (a version)
    sessionToken,       \* the accessToken of its cached session, 0 with none
                        \* (the values are followed in SpecGateway only)
    gw,                 \* the gateway calls in flight (a bag)
    lastOp,             \* history: the connect or disconnect completed last
    request,            \* the provider request issued in this step, if any
    contacts,           \* the Contact rows, by waId (of the one instance)
    waMessages,         \* the Message rows that carry a waMessageId
    media,              \* mediaUrl of those rows, and their handleMediaDownload
    ingest,             \* the POST /webhook invocations in flight (a bag)
    item,               \* history: the payload item taken up in this step
    emit,               \* the dispatchWebhook call made in this step, if any
    webhookRetryAttempts,  \* env.webhookRetryAttempts
    config,             \* webhookUrl and webhookEvents of each destination
    delivery,           \* sendWebhookWithRetry of one event, per destination
    streams,            \* GET /sse/:instanceId streams whose handlers are
                        \* registered on waManager, per instance id
    sseClosed,          \* how many of them have their connection closed
    sse,                \* what is written to SSE streams in this step, if any
    query               \* hub.mode, hub.verify_token, hub.challenge

\* the state of the campaigns, but for the response
campaignVars == <<campaign, messages, runningProcessors, sessions, proc, req,
                  attempts, sendLog, cancelledRunning, stopLog>>

\* the credentials of the instance and the gateway calls made outside the
\* campaigns
gatewayVars == <<credentials, sessionToken, gw, lastOp, request>>

\* the media of the ingested messages
mediaVars == <<media>>

\* the state of the webhook receiver
webVars == <<contacts, waMessages, ingest, item, emit>>

\* the state of the webhook relay
relayVars == <<webhookRetryAttempts, config, delivery>>

\* the SSE streams
sseVars == <<streams, sseClosed, sse>>

\* the input of the verification request GET /webhook
verifyVars == <<query>>

vars == <<campaign, messages, runningProcessors, sessions, proc, req,
          response, attempts, sendLog, cancelledRunning, stopLog, webVars,
          relayVars, sseVars, verifyVars, mediaVars, gatewayVars>>

\* sent and sleeps are history: the run has made a send, and the number of
\* pacing sleeps since its last send
IdleProc == [pc |-> "idle", cstatus |-> "NONE", msg |-> 0, sent |-> FALSE,
             sleeps |-> 0]

\* no pause or cancel is in force
NoStop == [on |-> FALSE, sends |-> 0]

\* no send has been answered
NoSends == [ok |-> {}, failed |-> {}]

\* no provider request is issued in the step
NoRequest == [token |-> 0]
NoResponse == [kind |-> "none", code |-> 0]

\* the webhook receiver: phone-number ids, senders, provider message ids
KnownPhone   == "pn1"                 \* waPhoneNumberId of the instance
PhoneIds     == {KnownPhone, "pn9"}   \* "pn9" belongs to no instance
WaIds        == {"5511"}              \* message.from
WaMessageIds == {"wamid1", "wamid2"}  \* message.id, status.id
PushNames    == {"", "Ana"}           \* profile.name, "" when absent
ProviderStatuses == {"delivered", "read"}

NoContact == [n |-> 0, pushName |-> ""]
NoRow  == [n |-> 0, status |-> "NONE", deliveredAt |-> FALSE, readAt |-> FALSE]
NoItem == [type |-> "none"]

\* no mediaUrl, no download scheduled (n counts the downloads scheduled)
NoMedia == [mediaUrl |-> "", pc |-> "none", n |-> 0]
NoEvent == [event |-> "none"]

\* the webhook relay: instance.webhookUrl and globalSettings.webhookUrl
Destinations == {"instance", "global"}
IdleDelivery ==
    [pc |-> "idle", event |-> "", attempt |-> 0, made |-> 0, slept |-> <<>>,
     ok |-> FALSE]

\* the SSE streams: the instance ids a stream can be opened for ("i2" is
\* another instance) and the record of a write
SseInstances == {InstanceId, "i2"}
NoSse == [event |-> "none", instanceId |-> "", n |-> 0]

\* the verification request: Secret is env.adminToken, Absent a query
\* parameter that the request does not have (undefined)
Secret     == "s3cret"
Absent     == "<absent>"
Modes      == {"subscribe", "Subscribe", "unsubscribe", Absent}
Tokens     == {Secret, "wrong", "", Absent}
Challenges == {"1158201444", "abc", "", Absent}
Queries    == [mode : Modes, token : Tokens, challenge : Challenges]
NoQuery    == [mode |-> Absent, token |-> Absent, challenge |-> Absent]

\* the events that reach dispatchWebhook, and what a webhookEvents list of a
\* destination can hold
WAEvents   == {"message", "message_ack", "ready", "disconnected"}
EventLists == SUBSET {"message", "message_ack", "*"}
Configs    == [Destinations -> [url : BOOLEAN, events : EventLists]]

\* both destinations have a URL and an empty webhookEvents list
OpenConfig == [d \in Destinations |-> [url |-> TRUE, events |-> {}]]

\* ------------------------------------------------------------ gateway
\* variant: every instance is reported connected
getStatusConnected(instanceId) == "connected"

\* getStatus: 'connected' exactly when the session cache has the instance
getStatus(instanceId) ==
    IF instanceId \in sessions THEN "connected" ELSE "disconnected"

\* getSession caches the credentials of a configured instance
getSession(instanceId) == sessions \cup {instanceId}

\* ------------------------------------------------------ pure decisions
\* prisma.message.findFirst({where: {status: 'PENDING'}, orderBy: createdAt})
PendingMsgs(msgs) == {m \in MsgIds : msgs[m] = "PENDING"}

Min(S) == CHOOSE x \in S : \A y \in S : x <= y

\* variant: orderBy createdAt desc, the newest PENDING row
findFirstNewestPending(msgs) ==
    IF PendingMsgs(msgs) = {} THEN 0
    ELSE CHOOSE x \in PendingMsgs(msgs) : \A y \in PendingMsgs(msgs) : y <= x

\* variant: the status filter of findFirst is lost (oldest row of any status)
findFirstAnyStatus(msgs) ==
    IF {m \in MsgIds : msgs[m] # "NONE"} = {} THEN 0
    ELSE Min({m \in MsgIds : msgs[m] # "NONE"})

findFirstPending(msgs) ==
    IF PendingMsgs(msgs) = {} THEN 0 ELSE Min(PendingMsgs(msgs))

\* variant: the re-entry test never finds the id
hasProcessorNever(running, id) == FALSE

\* the re-entry test of processCampaign
hasProcessor(running, id) == id \in running

\* variant: cancel passes its check in every status
controlAcceptsAnyCancel(action, status) ==
    CASE action = "pause"  -> status = "RUNNING"
      [] action = "resume" -> status = "PAUSED"
      [] action = "cancel" -> TRUE
      [] OTHER -> FALSE

\* switch (action) of POST /:id/control: does the action pass its check?
controlAccepts(action, status) ==
    CASE action = "pause"  -> status = "RUNNING"
      [] action = "resume" -> status = "PAUSED"
      [] action = "cancel" -> status \notin {"COMPLETED", "CANCELLED"}
      [] OTHER -> FALSE

\* the status each control action writes
controlTarget(action) ==
    CASE action = "pause"  -> "PAUSED"
      [] action = "resume" -> "RUNNING"
      [] action = "cancel" -> "CANCELLED"
      [] OTHER -> "RUNNING"

\* the status test of POST /:id/start
startStatusOk(status) == status = "PENDING"

\* variant: start does not look at the live status of the instance
startLiveOkAlways(live) == TRUE

\* the live-status test of POST /:id/start
startLiveOk(live) == live = "connected"

\* variants: a double increment, a lost increment
incSentTwice(c) == [c EXCEPT !.sent = @ + 2]
incFailedLost(c) == c

\* variant: the counter is decremented
incSentDown(c) == [c EXCEPT !.sent = @ - 1]

\* sentMessages: {increment: 1}
incSent(c) == [c EXCEPT !.sent = @ + 1]

\* failedMessages: {increment: 1}
incFailed(c) == [c EXCEPT !.failed = @ + 1]

\* ------------------------------------------------------------- initial
InitCampaign ==
    /\ campaign = [status |-> "NONE", total |-> 0, sent |-> 0, failed |-> 0,
                   startedAt |-> FALSE, completedAt |-> FALSE]
    /\ messages = [m \in MsgIds |-> "NONE"]
    /\ runningProcessors = {}
    /\ sessions = {}
    /\ proc = [p \in ProcIds |-> IdleProc]
    /\ req = EmptyBag
    /\ response = NoResponse
    /\ attempts = [m \in MsgIds |-> 0]
    /\ sendLog = NoSends
    /\ cancelledRunning = FALSE
    /\ stopLog = NoStop
    /\ credentials = 1
    /\ sessionToken = 0
    /\ gw = EmptyBag
    /\ lastOp = "none"
    /\ request = NoRequest

\* no contact, no message with a waMessageId, no webhook call in flight
InitWebhook ==
    /\ contacts = [w \in WaIds |-> NoContact]
    /\ waMessages = [i \in WaMessageIds |-> NoRow]
    /\ media = [i \in WaMessageIds |-> NoMedia]
    /\ ingest = EmptyBag
    /\ item = NoItem
    /\ emit = NoEvent

\* no delivery under way; n is the configured number of attempts, cfg the
\* stored webhook settings of the instance and of globalSettings
InitRelay(n, cfg) ==
    /\ webhookRetryAttempts = n
    /\ config = cfg
    /\ delivery = [d \in Destinations |-> IdleDelivery]

\* no SSE stream is open
InitSse ==
    /\ streams = [i \in SseInstances |-> 0]
    /\ sseClosed = [i \in SseInstances |-> 0]
    /\ sse = NoSse

\* the verification request that arrives
InitVerify(q) == query = q

Init ==
    /\ InitCampaign /\ InitWebhook /\ InitRelay(1, OpenConfig)
    /\ InitSse /\ InitVerify(NoQuery)

\* ------------------------------------------------ campaign creation
\* POST /simple (and /advanced): one Campaign row and n PENDING messages
CreateCampaign(n) ==
    /\ campaign.status = "NONE"
    /\ campaign' = [status |-> "PENDING", total |-> n, sent |-> 0,
                    failed |-> 0, startedAt |-> FALSE, completedAt |-> FALSE]
    /\ messages' = [m \in MsgIds |-> IF m <= n THEN "PENDING" ELSE "NONE"]
    /\ response' = NoResponse
    /\ UNCHANGED <<runningProcessors, sessions, proc, req, attempts, sendLog,
                   cancelledRunning, stopLog, webVars, relayVars, sseVars,
                   verifyVars, mediaVars, gatewayVars>>

\* ------------------------------------------------ instance connection
\* connect(): getSession caches the session of the instance
Connect ==
    /\ InstanceId \notin sessions
    /\ sessions' = getSession(InstanceId)
    /\ response' = NoResponse
    /\ UNCHANGED <<campaign, messages, runningProcessors, proc, req, attempts,
                   sendLog, cancelledRunning, stopLog, webVars, relayVars,
                   sseVars, verifyVars, mediaVars, gatewayVars>>

\* disconnect(): sessions.delete(instanceId)
Disconnect ==
    /\ InstanceId \in sessions
    /\ sessions' = sessions \ {InstanceId}
    /\ response' = NoResponse
    /\ UNCHANGED <<campaign, messages, runningProcessors, proc, req, attempts,
                   sendLog, cancelledRunning, stopLog, webVars, relayVars,
                   sseVars, verifyVars, mediaVars, gatewayVars>>

\* --------------------------------------------------- processCampaign
ActiveProcs == {p \in ProcIds : proc[p].pc # "idle"}
FreeProcs   == ProcIds \ ActiveProcs

\* processCampaign(id) up to its first await: the re-entry test, the add to
\* runningProcessors and the issue of the first findUnique.  It runs inside
\* the turn of the handler that calls it (void processCampaign(id)).
processCampaignEntry(id) ==
    IF hasProcessor(runningProcessors, id)
    THEN UNCHANGED <<runningProcessors, proc>>
    ELSE /\ FreeProcs # {}
         /\ runningProcessors' = runningProcessors \cup {id}
         /\ proc' = [proc EXCEPT ![Min(FreeProcs)] =
                        [IdleProc EXCEPT !.pc = "findUnique"]]

\* finally { runningProcessors.delete(campaignId) }
finallyDelete(running, id) == running \ {id}

\* prisma.campaign.findUnique takes effect: the row is read
LoopFindUnique(p) ==
    /\ proc[p].pc = "findUnique"
    /\ proc' = [proc EXCEPT ![p].pc = "checkStatus",
                            ![p].cstatus = campaign.status]
    /\ response' = NoResponse
    /\ UNCHANGED <<campaign, messages, runningProcessors, sessions, req,
                   attempts, sendLog, cancelledRunning, stopLog, webVars,
                   relayVars, sseVars, verifyVars, mediaVars, gatewayVars>>

\* variant: a PAUSED campaign passes the status test of the loop
loopRunsPaused(status) == status \in {"RUNNING", "PAUSED"}

\* if (!campaign || campaign.status !== 'RUNNING') return
loopRuns(status) == status = "RUNNING"

\* the turn after findUnique: status test, getStatus test
LoopCheck(p) ==
    /\ proc[p].pc = "checkStatus"
    /\ IF ~loopRuns(proc[p].cstatus)
       THEN /\ runningProcessors' = finallyDelete(runningProcessors, CampaignId)
            /\ proc' = [proc EXCEPT ![p] = IdleProc]
       ELSE /\ proc' = [proc EXCEPT ![p].pc =
                           IF getStatus(InstanceId) # "connected"
                           THEN "updPaused" ELSE "findFirst"]
            /\ UNCHANGED runningProcessors
    /\ response' = NoResponse
    /\ UNCHANGED <<campaign, messages, sessions, req, attempts, sendLog,
                   cancelledRunning, stopLog, webVars, relayVars, sseVars,
                   verifyVars, mediaVars, gatewayVars>>

\* prisma.campaign.update({status: 'PAUSED'}) takes effect
LoopUpdPaused(p) ==
    /\ proc[p].pc = "updPaused"
    /\ campaign' = [campaign EXCEPT !.status = "PAUSED"]
    /\ proc' = [proc EXCEPT ![p].pc = "exit"]
    /\ response' = NoResponse
    /\ UNCHANGED <<messages, runningProcessors, sessions, req, attempts,
                   sendLog, cancelledRunning, stopLog, webVars, relayVars,
                   sseVars, verifyVars, mediaVars, gatewayVars>>

\* prisma.message.findFirst takes effect; the turn after it either issues
\* the COMPLETED update or calls the gateway
LoopFindFirst(p) ==
    /\ proc[p].pc = "findFirst"
    /\ LET m == findFirstPending(messages) IN
         proc' = [proc EXCEPT ![p].msg = m,
                              ![p].pc = IF m = 0 THEN "updCompleted" ELSE "send"]
    /\ response' = NoResponse
    /\ UNCHANGED <<campaign, messages, runningProcessors, sessions, req,
                   attempts, sendLog, cancelledRunning, stopLog, webVars,
                   relayVars, sseVars, verifyVars, mediaVars, gatewayVars>>

\* prisma.campaign.update({status: 'COMPLETED', completedAt}) takes effect
LoopUpdCompleted(p) ==
    /\ proc[p].pc = "updCompleted"
    /\ campaign' = [campaign EXCEPT !.status = "COMPLETED",
                                    !.completedAt = TRUE]
    /\ proc' = [proc EXCEPT ![p].pc = "exit"]
    /\ response' = NoResponse
    /\ UNCHANGED <<messages, runningProcessors, sessions, req, attempts,
                   sendLog, cancelledRunning, stopLog, webVars, relayVars,
                   sseVars, verifyVars, mediaVars, gatewayVars>>

\* the turn after the PAUSED or COMPLETED update: return, then finally
LoopExit(p) ==
    /\ proc[p].pc = "exit"
    /\ runningProcessors' = finallyDelete(runningProcessors, CampaignId)
    /\ proc' = [proc EXCEPT ![p] = IdleProc]
    /\ response' = NoResponse
    /\ UNCHANGED <<campaign, messages, sessions, req, attempts, sendLog,
                   cancelledRunning, stopLog, webVars, relayVars, sseVars,
                   verifyVars, mediaVars, gatewayVars>>

\* waManager.sendText / sendMedia: getSession (re)caches the session, the
\* provider accepts (ok) or rejects the message
LoopSend(p, ok) ==
    /\ proc[p].pc = "send"
    /\ attempts[proc[p].msg] < MaxSends
    /\ attempts' = [attempts EXCEPT ![proc[p].msg] = @ + 1]
    /\ sendLog' = IF ok THEN [sendLog EXCEPT !.ok = @ \cup {proc[p].msg}]
                  ELSE [sendLog EXCEPT !.failed = @ \cup {proc[p].msg}]
    /\ sessions' = getSession(InstanceId)
    /\ proc' = [proc EXCEPT ![p].pc = IF ok THEN "markSent" ELSE "markFailed",
                            ![p].sent = TRUE, ![p].sleeps = 0]
    /\ stopLog' = [stopLog EXCEPT !.sends = IF stopLog.on THEN @ + 1 ELSE @]
    /\ response' = NoResponse
    /\ UNCHANGED <<campaign, messages, runningProcessors, req,
                   cancelledRunning, webVars, relayVars, sseVars, verifyVars,
                   mediaVars, gatewayVars>>

\* prisma.message.update({status: 'SENT', sentAt})
LoopMarkSent(p) ==
    /\ proc[p].pc = "markSent"
    /\ messages' = [messages EXCEPT ![proc[p].msg] = "SENT"]
    /\ proc' = [proc EXCEPT ![p].pc = "incSent"]
    /\ response' = NoResponse
    /\ UNCHANGED <<campaign, runningProcessors, sessions, req, attempts,
                   sendLog, cancelledRunning, stopLog, webVars, relayVars,
                   sseVars, verifyVars, mediaVars, gatewayVars>>

\* prisma.campaign.update({sentMessages: {increment: 1}})
LoopIncSent(p) ==
    /\ proc[p].pc = "incSent"
    /\ campaign' = incSent(campaign)
    /\ proc' = [proc EXCEPT ![p].pc = "sleep"]
    /\ response' = NoResponse
    /\ UNCHANGED <<messages, runningProcessors, sessions, req, attempts,
                   sendLog, cancelledRunning, stopLog, webVars, relayVars,
                   sseVars, verifyVars, mediaVars, gatewayVars>>

\* catch: prisma.message.update({status: 'FAILED', errorMsg})
LoopMarkFailed(p) ==
    /\ proc[p].pc = "markFailed"
    /\ messages' = [messages EXCEPT ![proc[p].msg] = "FAILED"]
    /\ proc' = [proc EXCEPT ![p].pc = "incFailed"]
    /\ response' = NoResponse
    /\ UNCHANGED <<campaign, runningProcessors, sessions, req, attempts,
                   sendLog, cancelledRunning, stopLog, webVars, relayVars,
                   sseVars, verifyVars, mediaVars, gatewayVars>>

\* catch: prisma.campaign.update({failedMessages: {increment: 1}})
LoopIncFailed(p) ==
    /\ proc[p].pc = "incFailed"
    /\ campaign' = incFailed(campaign)
    /\ proc' = [proc EXCEPT ![p].pc = "sleep"]
    /\ response' = NoResponse
    /\ UNCHANGED <<messages, runningProcessors, sessions, req, attempts,
                   sendLog, cancelledRunning, stopLog, webVars, relayVars,
                   sseVars, verifyVars, mediaVars, gatewayVars>>

\* variant: the iteration goes on without the sleep
LoopNoSleep(p) ==
    /\ proc[p].pc = "sleep"
    /\ proc' = [proc EXCEPT ![p].pc = "findUnique", ![p].msg = 0,
                            ![p].cstatus = "NONE"]
    /\ response' = NoResponse
    /\ UNCHANGED <<campaign, messages, runningProcessors, sessions, req,
                   attempts, sendLog, cancelledRunning, stopLog, webVars,
                   relayVars, sseVars, verifyVars, mediaVars, gatewayVars>>

\* setTimeout(resolve, campaign.delay) fires: next iteration, findUnique
LoopSleep(p) ==
    /\ proc[p].pc = "sleep"
    /\ proc' = [proc EXCEPT ![p].pc = "findUnique", ![p].msg = 0,
                            ![p].cstatus = "NONE", ![p].sleeps = @ + 1]
    /\ response' = NoResponse
    /\ UNCHANGED <<campaign, messages, runningProcessors, sessions, req,
                   attempts, sendLog, cancelledRunning, stopLog, webVars,
                   relayVars, sseVars, verifyVars, mediaVars, gatewayVars>>

\* ------------------------------------------------------ HTTP handlers
\* A handler invocation has no identity beyond its own position, so the
\* invocations in flight form a bag of records [kind, pc].
InFlight == BagToSet(req)
Put(r) == req (+) SetToBag({r})
Move(r, pc) == (req (-) SetToBag({r})) (+) SetToBag({[r EXCEPT !.pc = pc]})
Drop(r) == req (-) SetToBag({r})

\* the handler answers kind with code (throw new HTTPException / c.json)
Answer(kind, code) == [kind |-> kind, code |-> code]

\* A request for POST /:id/start or POST /:id/control {action} arrives and
\* its prisma.campaign.findFirst takes effect.  The turn after the read
\* decides on the row read alone (404, the switch of the control handler,
\* the status test of the start handler), so it is taken with the read; the
\* start handler then calls getStatus, which is the step StartCheck.
Request(kind) ==
    /\ BagCardinality(req) < MaxReq
    /\ LET st == campaign.status IN
         IF st = "NONE"
         THEN /\ response' = Answer(kind, 404)
              /\ UNCHANGED req
         ELSE IF kind = "start" /\ startStatusOk(st)
         THEN /\ req' = Put([kind |-> kind, pc |-> "check"])
              /\ response' = NoResponse
         ELSE IF kind # "start" /\ controlAccepts(kind, st)
         THEN /\ req' = Put([kind |-> kind, pc |-> "update"])
              /\ response' = NoResponse
         ELSE /\ response' = Answer(kind, 400)
              /\ UNCHANGED req
    /\ UNCHANGED <<campaign, messages, runningProcessors, sessions, proc,
                   attempts, sendLog, cancelledRunning, stopLog, webVars,
                   relayVars, sseVars, verifyVars, mediaVars, gatewayVars>>

\* start: waManager.getStatus in the turn after findFirst
StartCheck(r) ==
    /\ r \in InFlight /\ r.pc = "check"
    /\ IF startLiveOk(getStatus(InstanceId))
       THEN /\ req' = Move(r, "update")
            /\ response' = NoResponse
       ELSE /\ req' = Drop(r)
            /\ response' = Answer(r.kind, 400)
    /\ UNCHANGED <<campaign, messages, runningProcessors, sessions, proc,
                   attempts, sendLog, cancelledRunning, stopLog, webVars,
                   relayVars, sseVars, verifyVars, mediaVars, gatewayVars>>

\* prisma.campaign.update of the handler takes effect.  After it pause and
\* cancel only answer 200; start and resume go on to call processCampaign.
HUpdate(r) ==
    /\ r \in InFlight /\ r.pc = "update"
    /\ campaign' =
         IF r.kind = "start"
         THEN [campaign EXCEPT !.status = "RUNNING", !.startedAt = TRUE]
         ELSE [campaign EXCEPT !.status = controlTarget(r.kind)]
    /\ cancelledRunning' =
         (cancelledRunning \/ (r.kind = "cancel" /\ campaign.status = "RUNNING"))
    /\ stopLog' = [on |-> r.kind \in {"pause", "cancel"}, sends |-> 0]
    /\ IF r.kind \in {"start", "resume"}
       THEN /\ req' = Move(r, "finish")
            /\ response' = NoResponse
       ELSE /\ req' = Drop(r)
            /\ response' = Answer(r.kind, 200)
    /\ UNCHANGED <<messages, runningProcessors, sessions, proc, attempts,
                   sendLog, webVars, relayVars, sseVars, verifyVars, mediaVars,
                   gatewayVars>>

\* start, resume: the turn after the update calls processCampaign and
\* answers 200
HFinish(r) ==
    /\ r \in InFlight /\ r.pc = "finish"
    /\ processCampaignEntry(CampaignId)
    /\ req' = Drop(r)
    /\ response' = Answer(r.kind, 200)
    /\ UNCHANGED <<campaign, messages, sessions, attempts, sendLog,
                   cancelledRunning, stopLog, webVars, relayVars, sseVars,
                   verifyVars, mediaVars, gatewayVars>>

ReqStates == [kind : Kinds, pc : {"check", "update", "finish"}]

Next ==
    \/ \E n \in 1..MaxMsgs : CreateCampaign(n)
    \/ Connect
    \/ Disconnect
    \/ \E k \in Kinds : Request(k)
    \/ \E r \in ReqStates : StartCheck(r)
    \/ \E r \in ReqStates : HUpdate(r)
    \/ \E r \in ReqStates : HFinish(r)
    \/ \E p \in ProcIds : LoopFindUnique(p)
    \/ \E p \in ProcIds : LoopCheck(p)
    \/ \E p \in ProcIds : LoopUpdPaused(p)
    \/ \E p \in ProcIds : LoopFindFirst(p)
    \/ \E p \in ProcIds : LoopUpdCompleted(p)
    \/ \E p \in ProcIds : LoopExit(p)
    \/ \E p \in ProcIds, ok \in BOOLEAN : LoopSend(p, ok)
    \/ \E p \in ProcIds : LoopMarkSent(p)
    \/ \E p \in ProcIds : LoopIncSent(p)
    \/ \E p \in ProcIds : LoopMarkFailed(p)
    \/ \E p \in ProcIds : LoopIncFailed(p)
    \/ \E p \in ProcIds : LoopSleep(p)

Spec == Init /\ [][Next]_vars

\* ------------------------------------------- the undisturbed campaign
\* The campaign left alone: the instance is connected and stays connected,
\* the provider accepts every send, and the only requests are starts.
NextUndisturbed ==
    \/ \E n \in 1..MaxMsgs : CreateCampaign(n)
    \/ Connect
    \/ Request("start")
    \/ \E r \in ReqStates : StartCheck(r)
    \/ \E r \in ReqStates : HUpdate(r)
    \/ \E r \in ReqStates : HFinish(r)
    \/ \E p \in ProcIds : LoopFindUnique(p)
    \/ \E p \in ProcIds : LoopCheck(p)
    \/ \E p \in ProcIds : LoopFindFirst(p)
    \/ \E p \in ProcIds : LoopUpdCompleted(p)
    \/ \E p \in ProcIds : LoopExit(p)
    \/ \E p \in ProcIds : LoopSend(p, TRUE)
    \/ \E p \in ProcIds : LoopMarkSent(p)
    \/ \E p \in ProcIds : LoopIncSent(p)
    \/ \E p \in ProcIds : LoopSleep(p)

\* one turn of the loop p, whatever its position
LoopStep(p) ==
    \/ LoopFindUnique(p) \/ LoopCheck(p) \/ LoopFindFirst(p)
    \/ LoopUpdCompleted(p) \/ LoopExit(p) \/ LoopSend(p, TRUE)
    \/ LoopMarkSent(p) \/ LoopIncSent(p) \/ LoopSleep(p)

\* one turn of a handler invocation in position r
HandlerStep(r) == StartCheck(r) \/ HUpdate(r) \/ HFinish(r)

\* The event loop runs every continuation that is ready, the store answers
\* every operation and every timer fires: each loop and each handler that
\* can take a step eventually takes it.  Requests need not arrive.
SpecUndisturbed ==
    /\ Init
    /\ [][NextUndisturbed]_vars
    /\ \A p \in ProcIds : WF_vars(LoopStep(p))
    /\ \A r \in ReqStates : WF_vars(HandlerStep(r))

\* --------------------------------------- the campaign of rejected sends
\* As the undisturbed campaign, but the provider rejects every send.
NextRejected ==
    \/ \E n \in 1..MaxMsgs : CreateCampaign(n)
    \/ Connect
    \/ Request("start")
    \/ \E r \in ReqStates : StartCheck(r)
    \/ \E r \in ReqStates : HUpdate(r)
    \/ \E r \in ReqStates : HFinish(r)
    \/ \E p \in ProcIds : LoopFindUnique(p)
    \/ \E p \in ProcIds : LoopCheck(p)
    \/ \E p \in ProcIds : LoopFindFirst(p)
    \/ \E p \in ProcIds : LoopUpdCompleted(p)
    \/ \E p \in ProcIds : LoopExit(p)
    \/ \E p \in ProcIds : LoopSend(p, FALSE)
    \/ \E p \in ProcIds : LoopMarkFailed(p)
    \/ \E p \in ProcIds : LoopIncFailed(p)
    \/ \E p \in ProcIds : LoopSleep(p)

\* one turn of the loop p, whatever its position
LoopStepRejected(p) ==
    \/ LoopFindUnique(p) \/ LoopCheck(p) \/ LoopFindFirst(p)
    \/ LoopUpdCompleted(p) \/ LoopExit(p) \/ LoopSend(p, FALSE)
    \/ LoopMarkFailed(p) \/ LoopIncFailed(p) \/ LoopSleep(p)

SpecRejected ==
    /\ Init
    /\ [][NextRejected]_vars
    /\ \A p \in ProcIds : WF_vars(LoopStepRejected(p))
    /\ \A r \in ReqStates : WF_vars(HandlerStep(r))

\* ------------------------------------- the campaign on a failing store
\* a store call of the loop is rejected: the turn changes the position of
\* the loop only
FaultTurn ==
    /\ response' = NoResponse
    /\ UNCHANGED <<campaign, messages, sessions, req, attempts, sendLog,
                   cancelledRunning, stopLog, webVars, relayVars, sseVars,
                   verifyVars, mediaVars, gatewayVars>>

\* prisma.message.update({status: 'SENT'}) or prisma.campaign.update(
\* {sentMessages: {increment: 1}}) throws after the provider took the
\* message: both are inside the try of the send, so its catch runs
LoopRecordThrows(p) ==
    /\ proc[p].pc \in {"markSent", "incSent"}
    /\ proc' = [proc EXCEPT ![p].pc = "markFailed"]
    /\ UNCHANGED runningProcessors
    /\ FaultTurn

\* a store call of the catch throws: processCampaign is left through its
\* finally block
LoopCatchThrows(p) ==
    /\ proc[p].pc \in {"markFailed", "incFailed"}
    /\ runningProcessors' = finallyDelete(runningProcessors, CampaignId)
    /\ proc' = [proc EXCEPT ![p] = IdleProc]
    /\ FaultTurn

\* one start of the campaign; the provider takes or refuses each message and
\* the store may reject the writes that record the outcome
NextFaults ==
    \/ \E n \in 1..MaxMsgs : CreateCampaign(n)
    \/ Connect
    \/ Request("start")
    \/ \E r \in ReqStates : StartCheck(r)
    \/ \E r \in ReqStates : HUpdate(r)
    \/ \E r \in ReqStates : HFinish(r)
    \/ \E p \in ProcIds : LoopFindUnique(p)
    \/ \E p \in ProcIds : LoopCheck(p)
    \/ \E p \in ProcIds : LoopFindFirst(p)
    \/ \E p \in ProcIds : LoopUpdCompleted(p)
    \/ \E p \in ProcIds : LoopExit(p)
    \/ \E p \in ProcIds, ok \in BOOLEAN : LoopSend(p, ok)
    \/ \E p \in ProcIds : LoopMarkSent(p)
    \/ \E p \in ProcIds : LoopIncSent(p)
    \/ \E p \in ProcIds : LoopMarkFailed(p)
    \/ \E p \in ProcIds : LoopIncFailed(p)
    \/ \E p \in ProcIds : LoopSleep(p)
    \/ \E p \in ProcIds : LoopRecordThrows(p)
    \/ \E p \in ProcIds : LoopCatchThrows(p)

SpecFaults == Init /\ [][NextFaults]_vars

\* --------------------------------------------------- POST /webhook
\* variant: every phone-number id finds the instance
findInstanceAny(pn) == InstanceId

\* prisma.instance.findFirst({where: {waPhoneNumberId}}): the instances do
\* not change while webhooks arrive, "" stands for null
findInstance(pn) == IF pn = KnownPhone THEN InstanceId ELSE ""

\* variant: the unique key of waMessageId (or of instanceId_waId) is lost
uniqueViolationNever(n) == FALSE

\* The store rejects a create whose unique key is taken: findUnique is only
\* offered for a unique key (waMessageId; instanceId_waId of Contact).
uniqueViolation(n) == n >= 1

\* status.status.toUpperCase()
toUpperCase(st) ==
    CASE st = "delivered" -> "DELIVERED"
      [] st = "read"      -> "READ"
      [] st = "sent"      -> "SENT"
      [] st = "failed"    -> "FAILED"

\* variant: the update creates the row it does not find
updateManyUpsert(rows, id, st) ==
    [rows EXCEPT ![id] = [n |-> IF @.n = 0 THEN 1 ELSE @.n,
                          status |-> toUpperCase(st),
                          deliveredAt |-> @.deliveredAt \/ st = "delivered",
                          readAt |-> @.readAt \/ st = "read"]]

\* variant: every status stamps both timestamps
updateManyStamps(rows, id, st) ==
    IF rows[id].n = 0 THEN rows
    ELSE [rows EXCEPT ![id].status = toUpperCase(st),
                      ![id].deliveredAt = TRUE,
                      ![id].readAt = TRUE]

\* prisma.message.updateMany({where: {waMessageId: id}, data: {status,
\* deliveredAt?, readAt?}}): every row with the id, none if there is none
updateMany(rows, id, st) ==
    IF rows[id].n = 0 THEN rows
    ELSE [rows EXCEPT ![id].status = toUpperCase(st),
                      ![id].deliveredAt = @ \/ st = "delivered",
                      ![id].readAt = @ \/ st = "read"]

\* message.type of the two messages: wamid1 is a text, wamid2 an image
typeOf(id) == IF id = "wamid2" THEN "image" ELSE "text"

\* the mediaUrl of the new row: the provider's id of the media of an image,
\* a video, an audio or a document, '' for every other type
mediaUrlOf(type) ==
    IF type \in {"image", "video", "audio", "document"} THEN "id" ELSE ""

\* ['image', 'video', 'audio', 'document', 'sticker'].includes(message.type)
\* && mediaUrl
carriesMedia(type, mediaUrl) ==
    /\ type \in {"image", "video", "audio", "document", "sticker"}
    /\ mediaUrl # ""

\* the row is created with its mediaUrl; handleMediaDownload is called, and
\* not awaited, when the message carries media
createMedia(md, id) ==
    LET url == mediaUrlOf(typeOf(id)) IN
      IF carriesMedia(typeOf(id), url)
      THEN [md EXCEPT ![id] = [mediaUrl |-> url, pc |-> "download",
                               n |-> @.n + 1]]
      ELSE [md EXCEPT ![id].mediaUrl = url]

\* the items a payload can hold: value.messages[i] and value.statuses[i]
\* with the metadata.phone_number_id of their change
MessageItems ==
    [type : {"message"}, pn : PhoneIds, from : WaIds, id : WaMessageIds,
     pushName : PushNames]
StatusItems ==
    [type : {"status"}, pn : PhoneIds, id : WaMessageIds,
     status : ProviderStatuses]

\* what the steps record of the item they take up
Taken(it) == [type |-> it.type, pn |-> it.pn, id |-> it.id]

\* An invocation is at the instance.findFirst of its next item ("next") or
\* inside a message item; last tells whether the payload holds no item after
\* this one.  The handler never looks ahead in the payload, so the payload
\* is revealed item by item.
NextCall ==
    [pc |-> "next", last |-> FALSE, from |-> "", id |-> "", pushName |-> ""]
IngestStates ==
    [pc : {"createContact", "updateContact", "findMessage", "createMessage"},
     last : BOOLEAN, from : WaIds, id : WaMessageIds, pushName : PushNames]

\* the invocation c goes on as d
Goto(c, d) ==
    /\ ingest' = (ingest (-) SetToBag({c})) (+) SetToBag({d})
    /\ response' = NoResponse

\* variant: the handler goes on only when no delivery is under way
AdvanceAfterDelivery(c, last) ==
    /\ \A d \in DOMAIN delivery : delivery[d].pc \notin {"fetch", "backoff"}
    /\ IF last
       THEN /\ ingest' = ingest (-) SetToBag({c})
            /\ response' = [kind |-> "webhook", code |-> 200]
       ELSE Goto(c, NextCall)

\* the item is over: the loops go on to the next item or, after the last
\* one, the handler returns c.json({status: 'ok'})
Advance(c, last) ==
    IF last
    THEN /\ ingest' = ingest (-) SetToBag({c})
         /\ response' = Answer("webhook", 200)
    ELSE Goto(c, NextCall)

\* a store call throws: the catch of the handler answers 500
Throw(c) ==
    /\ ingest' = ingest (-) SetToBag({c})
    /\ response' = Answer("webhook", 500)

\* dispatchWebhook(instance.id, event, {...})
Dispatch(event, id) == [event |-> event, id |-> id]

\* A POST /webhook arrives.  c.req.json() throws on a body that is not JSON
\* (parsed = FALSE); a body of another object, or with no item, is answered
\* at once; otherwise the first instance.findFirst is issued.
IngestReceive(parsed, waba, empty) ==
    /\ BagCardinality(ingest) < MaxCalls
    /\ IF ~parsed
       THEN /\ response' = Answer("webhook", 500)
            /\ UNCHANGED ingest
       ELSE IF ~waba \/ empty
       THEN /\ response' = Answer("webhook", 200)
            /\ UNCHANGED ingest
       ELSE /\ ingest' = ingest (+) SetToBag({NextCall})
            /\ response' = NoResponse
    /\ item' = NoItem
    /\ emit' = NoEvent
    /\ sse' = NoSse
    /\ UNCHANGED <<contacts, waMessages, campaignVars, relayVars, streams,
                   sseClosed, verifyVars, mediaVars, gatewayVars>>

\* the next item belongs to no instance: nothing is done for it
IngestUnknown(it, last) ==
    /\ NextCall \in BagToSet(ingest)
    /\ findInstance(it.pn) = ""
    /\ Advance(NextCall, last)
    /\ item' = Taken(it)
    /\ emit' = NoEvent
    /\ sse' = NoSse
    /\ UNCHANGED <<contacts, waMessages, campaignVars, relayVars, streams,
                   sseClosed, verifyVars, mediaVars, gatewayVars>>

\* the next item is a message of the instance: prisma.contact.findUnique
\* takes effect, the turn after it issues the create, the update of the
\* name or the findUnique of the message
IngestMessage(it, last) ==
    /\ NextCall \in BagToSet(ingest)
    /\ it.type = "message"
    /\ findInstance(it.pn) # ""
    /\ LET d == [pc |-> "findMessage", last |-> last, from |-> it.from,
                 id |-> it.id, pushName |-> ""] IN
         IF contacts[it.from].n = 0
         THEN Goto(NextCall, [d EXCEPT !.pc = "createContact",
                                       !.pushName = it.pushName])
         ELSE IF it.pushName # "" /\ contacts[it.from].pushName # it.pushName
         THEN Goto(NextCall, [d EXCEPT !.pc = "updateContact",
                                       !.pushName = it.pushName])
         ELSE Goto(NextCall, d)
    /\ item' = Taken(it)
    /\ emit' = NoEvent
    /\ sse' = NoSse
    /\ UNCHANGED <<contacts, waMessages, campaignVars, relayVars, streams,
                   sseClosed, verifyVars, mediaVars, gatewayVars>>

\* prisma.contact.create({instanceId, waId, pushName: pushName || from})
IngestCreateContact(c) ==
    /\ c \in BagToSet(ingest) /\ c.pc = "createContact"
    /\ IF uniqueViolation(contacts[c.from].n)
       THEN /\ Throw(c)
            /\ UNCHANGED contacts
       ELSE /\ contacts' = [contacts EXCEPT ![c.from] =
                   [n |-> @.n + 1,
                    pushName |-> IF c.pushName = "" THEN c.from
                                 ELSE c.pushName]]
            /\ Goto(c, [c EXCEPT !.pc = "findMessage", !.pushName = ""])
    /\ item' = NoItem
    /\ emit' = NoEvent
    /\ sse' = NoSse
    /\ UNCHANGED <<waMessages, campaignVars, relayVars, streams, sseClosed,
                   verifyVars, mediaVars, gatewayVars>>

\* prisma.contact.update({where: {id: contact.id}, data: {pushName}})
IngestUpdateContact(c) ==
    /\ c \in BagToSet(ingest) /\ c.pc = "updateContact"
    /\ contacts' = [contacts EXCEPT ![c.from].pushName = c.pushName]
    /\ Goto(c, [c EXCEPT !.pc = "findMessage", !.pushName = ""])
    /\ item' = NoItem
    /\ emit' = NoEvent
    /\ sse' = NoSse
    /\ UNCHANGED <<waMessages, campaignVars, relayVars, streams, sseClosed,
                   verifyVars, mediaVars, gatewayVars>>

\* prisma.message.findUnique({where: {waMessageId}}) takes effect.  With a
\* row the turn after it skips the create, calls dispatchWebhook and goes on
\* to the next item; with none it issues the create.
IngestFindMessage(c) ==
    /\ c \in BagToSet(ingest) /\ c.pc = "findMessage"
    /\ IF waMessages[c.id].n # 0
       THEN /\ emit' = Dispatch("message", c.id)
            /\ Advance(c, c.last)
       ELSE /\ emit' = NoEvent
            /\ Goto(c, [c EXCEPT !.pc = "createMessage"])
    /\ item' = NoItem
    /\ sse' = NoSse
    /\ UNCHANGED <<contacts, waMessages, campaignVars, relayVars, streams,
                   sseClosed, verifyVars, mediaVars, gatewayVars>>

\* prisma.message.create({waMessageId, mediaUrl, status: 'DELIVERED', ...}),
\* then the call of handleMediaDownload for a message with media and
\* dispatchWebhook(instance.id, 'message', eventData)
IngestCreateMessage(c) ==
    /\ c \in BagToSet(ingest) /\ c.pc = "createMessage"
    /\ IF uniqueViolation(waMessages[c.id].n)
       THEN /\ Throw(c)
            /\ emit' = NoEvent
            /\ UNCHANGED <<waMessages, media>>
       ELSE /\ waMessages' = [waMessages EXCEPT ![c.id] =
                   [n |-> @.n + 1, status |-> "DELIVERED",
                    deliveredAt |-> FALSE, readAt |-> FALSE]]
            /\ media' = createMedia(media, c.id)
            /\ emit' = Dispatch("message", c.id)
            /\ Advance(c, c.last)
    /\ item' = NoItem
    /\ sse' = NoSse
    /\ UNCHANGED <<contacts, campaignVars, relayVars, streams, sseClosed,
                   verifyVars, gatewayVars>>

\* the next item is a status of the instance: prisma.message.updateMany
\* takes effect, then dispatchWebhook(instance.id, 'message_ack', ...)
IngestStatus(it, last) ==
    /\ NextCall \in BagToSet(ingest)
    /\ it.type = "status"
    /\ findInstance(it.pn) # ""
    /\ waMessages' = updateMany(waMessages, it.id, it.status)
    /\ emit' = Dispatch("message_ack", it.id)
    /\ Advance(NextCall, last)
    /\ item' = Taken(it)
    /\ sse' = NoSse
    /\ UNCHANGED <<contacts, campaignVars, relayVars, streams, sseClosed,
                   verifyVars, mediaVars, gatewayVars>>

NextIngest ==
    \/ \E parsed, waba, empty \in BOOLEAN : IngestReceive(parsed, waba, empty)
    \/ \E it \in MessageItems \cup StatusItems, last \in BOOLEAN :
          IngestUnknown(it, last)
    \/ \E it \in MessageItems, last \in BOOLEAN : IngestMessage(it, last)
    \/ \E c \in IngestStates : IngestCreateContact(c)
    \/ \E c \in IngestStates : IngestUpdateContact(c)
    \/ \E c \in IngestStates : IngestFindMessage(c)
    \/ \E c \in IngestStates : IngestCreateMessage(c)
    \/ \E it \in StatusItems, last \in BOOLEAN : IngestStatus(it, last)

\* the webhook receiver alone: no campaign exists
SpecIngest == Init /\ [][NextIngest]_vars

\* ------------------------------------------- handleMediaDownload
\* a turn of a download: it answers no request, takes up no item, emits no
\* event and leaves the contacts, the status of the rows and the calls
MediaTurn ==
    /\ response' = NoResponse
    /\ item' = NoItem
    /\ emit' = NoEvent
    /\ sse' = NoSse
    /\ UNCHANGED <<contacts, waMessages, ingest, relayVars, streams, sseClosed,
                   verifyVars, gatewayVars>>

\* variant: the catch of the download empties the mediaUrl of the row
downloadFailedCleared(m) == [m EXCEPT !.pc = "failed", !.mediaUrl = ""]

\* catch (error) { logger.error(...) }: the download is over
downloadFailed(m) == [m EXCEPT !.pc = "failed"]

\* waManager.downloadMedia(instanceId, messageId, {}) ends: its getSession
\* has cached the session; the buffer arrives (ok) or the call throws
MediaDownloaded(i, ok) ==
    /\ media[i].pc = "download"
    /\ media' = [media EXCEPT ![i] =
                    IF ok THEN [@ EXCEPT !.pc = "write"] ELSE downloadFailed(@)]
    /\ sessions' = getSession(InstanceId)
    /\ MediaTurn
    /\ UNCHANGED <<campaign, messages, runningProcessors, proc, req,
                   attempts, sendLog, cancelledRunning, stopLog>>

\* fs.promises.writeFile(filePath, buffer) ends
MediaWritten(i, ok) ==
    /\ media[i].pc = "write"
    /\ media' = [media EXCEPT ![i] =
                    IF ok THEN [@ EXCEPT !.pc = "update"] ELSE downloadFailed(@)]
    /\ MediaTurn
    /\ UNCHANGED campaignVars

\* prisma.message.update({where: {waMessageId}, data: {mediaUrl:
\* `/media/${fileName}`}}) ends
MediaUpdated(i, ok) ==
    /\ media[i].pc = "update"
    /\ media' = [media EXCEPT ![i] =
                    IF ok THEN [@ EXCEPT !.pc = "done", !.mediaUrl = "local"]
                    ELSE downloadFailed(@)]
    /\ MediaTurn
    /\ UNCHANGED campaignVars

\* payloads of messages of the known instance, without profile name
MediaMessages ==
    [type : {"message"}, pn : {KnownPhone}, from : WaIds, id : WaMessageIds,
     pushName : {""}]

NextMedia ==
    \/ IngestReceive(TRUE, TRUE, FALSE)
    \/ \E it \in MediaMessages, last \in BOOLEAN : IngestMessage(it, last)
    \/ \E c \in IngestStates : IngestCreateContact(c)
    \/ \E c \in IngestStates : IngestFindMessage(c)
    \/ \E c \in IngestStates : IngestCreateMessage(c)
    \/ \E i \in WaMessageIds, ok \in BOOLEAN : MediaDownloaded(i, ok)
    \/ \E i \in WaMessageIds, ok \in BOOLEAN : MediaWritten(i, ok)
    \/ \E i \in WaMessageIds, ok \in BOOLEAN : MediaUpdated(i, ok)

\* the receiver of messages with the downloads it starts
SpecMedia == Init /\ [][NextMedia]_vars

\* ----------------------------------------- credentials and the gateway
\* The gateway calls made outside the campaigns, with the value of the
\* session they use.  A call is connect or a send (sendText, sendMedia and
\* the like, all of one shape).  It is in the credentials route before
\* connect is called ("route"), inside the findUnique of getSession
\* ("load"), or inside the fetch of apiRequest ("fetch", with the
\* accessToken of its Authorization header).
GwOps == {"connect", "send"}
GwStates == [op : GwOps, pc : {"route", "load", "fetch"}, token : 0..MaxTokens]

\* a turn of the gateway leaves the campaigns, the receiver, the relay and
\* the streams alone
GwTurn ==
    /\ response' = NoResponse
    /\ UNCHANGED <<campaign, messages, runningProcessors, proc, req, attempts,
                   sendLog, cancelledRunning, stopLog, webVars, relayVars,
                   sseVars, verifyVars, mediaVars>>

\* The first turn of a gateway method.  With a cached session both
\* getSession calls return it and apiRequest issues its fetch with the
\* cached accessToken; without one getSession issues its findUnique.
enterGateway(op) ==
    /\ UNCHANGED sessionToken
    /\ IF InstanceId \in sessions
       THEN /\ request' = [token |-> sessionToken]
            /\ gw' = gw (+) SetToBag({[op |-> op, pc |-> "fetch",
                                       token |-> sessionToken]})
       ELSE /\ request' = NoRequest
            /\ gw' = gw (+) SetToBag({[op |-> op, pc |-> "load",
                                       token |-> 0]})

\* waManager.connect(id) of POST /:id/connect, or a send, is called
GwCall(op) ==
    /\ BagCardinality(gw) < MaxGw
    /\ enterGateway(op)
    /\ UNCHANGED <<sessions, credentials, lastOp>>
    /\ GwTurn

\* The findUnique of getSession is answered: the session is built from the
\* stored credentials and cached (sessions.set), and apiRequest, whose own
\* getSession finds it, issues the fetch.
GwLoaded(c) ==
    /\ c \in BagToSet(gw) /\ c.pc = "load"
    /\ sessions' = getSession(InstanceId)
    /\ sessionToken' = credentials
    /\ request' = [token |-> credentials]
    /\ gw' = (gw (-) SetToBag({c}))
                (+) SetToBag({[c EXCEPT !.pc = "fetch", !.token = credentials]})
    /\ UNCHANGED <<credentials, lastOp>>
    /\ GwTurn

\* The fetch of apiRequest ends, with response.ok or not.  A send is over.
\* connect writes the status of the instance and returns, or rethrows from
\* its catch: it is over as well, and the catch leaves the cache as it is.
GwFetchEnds(c, ok) ==
    /\ c \in BagToSet(gw) /\ c.pc = "fetch"
    /\ gw' = gw (-) SetToBag({c})
    /\ lastOp' = IF c.op # "connect" THEN lastOp
                 ELSE IF ok THEN "connect" ELSE "connectFailed"
    /\ request' = NoRequest
    /\ UNCHANGED <<sessions, sessionToken, credentials>>
    /\ GwTurn

\* waManager.disconnect(id): sessions.delete, then the status is written
GwDisconnect ==
    /\ sessions' = sessions \ {InstanceId}
    /\ sessionToken' = 0
    /\ lastOp' = "disconnect"
    /\ request' = NoRequest
    /\ UNCHANGED <<credentials, gw>>
    /\ GwTurn

\* POST /:id/credentials: prisma.instance.update stores the new phone-number
\* id and access token; the route goes on in a later turn
UpdateCredentials ==
    /\ credentials < MaxTokens
    /\ BagCardinality(gw) < MaxGw
    /\ credentials' = credentials + 1
    /\ gw' = gw (+) SetToBag({[op |-> "connect", pc |-> "route", token |-> 0]})
    /\ request' = NoRequest
    /\ UNCHANGED <<sessions, sessionToken, lastOp>>
    /\ GwTurn

\* the turn of the credentials route after its update: waManager.connect(id)
\* is called, not awaited, and the route answers
CredentialsReconnect(c) ==
    /\ c \in BagToSet(gw) /\ c.pc = "route"
    /\ LET rest == gw (-) SetToBag({c}) IN
         IF InstanceId \in sessions
         THEN /\ request' = [token |-> sessionToken]
              /\ gw' = rest (+) SetToBag({[c EXCEPT !.pc = "fetch",
                                                    !.token = sessionToken]})
         ELSE /\ request' = NoRequest
              /\ gw' = rest (+) SetToBag({[c EXCEPT !.pc = "load"]})
    /\ UNCHANGED <<sessions, sessionToken, credentials, lastOp>>
    /\ GwTurn

NextGateway ==
    \/ \E op \in GwOps : GwCall(op)
    \/ \E c \in GwStates : GwLoaded(c)
    \/ \E c \in GwStates, ok \in BOOLEAN : GwFetchEnds(c, ok)
    \/ GwDisconnect
    \/ UpdateCredentials
    \/ \E c \in GwStates : CredentialsReconnect(c)

\* the gateway alone: no campaign exists, no webhook arrives
SpecGateway == Init /\ [][NextGateway]_vars

\* ------------------------------------------- the status updates alone
\* status.status as the provider reports it for a message
AllStatuses == {"sent", "delivered", "read", "failed"}

\* payloads of one item of the known instance: a message without profile
\* name, or a status of any of the provider's values
StatusMessages ==
    [type : {"message"}, pn : {KnownPhone}, from : WaIds, id : WaMessageIds,
     pushName : {""}]
StatusUpdates ==
    [type : {"status"}, pn : {KnownPhone}, id : WaMessageIds,
     status : AllStatuses]

NextStatus ==
    \/ IngestReceive(TRUE, TRUE, FALSE)
    \/ \E it \in StatusMessages : IngestMessage(it, TRUE)
    \/ \E c \in IngestStates : IngestCreateContact(c)
    \/ \E c \in IngestStates : IngestFindMessage(c)
    \/ \E c \in IngestStates : IngestCreateMessage(c)
    \/ \E it \in StatusUpdates : IngestStatus(it, TRUE)

SpecStatus == Init /\ [][NextStatus]_vars

\* --------------------------------------------------- webhook relay
\* Math.pow(2, n)
RECURSIVE Pow2(_)
Pow2(n) == IF n = 0 THEN 1 ELSE 2 * Pow2(n - 1)

\* variant: the loop admits one attempt more
loopTestOneMore(attempt, max) == attempt <= max + 1

\* for (...; attempt <= env.webhookRetryAttempts; ...)
loopTest(attempt, max) == attempt <= max

\* variant: the loop does not return on success
returnsOnNever(success) == FALSE

\* if (success) return
returnsOn(success) == success

\* if (attempt < env.webhookRetryAttempts): sleep before the next attempt
backoffTest(attempt, max) == attempt < max

\* variant: the exponent is the attempt number
backoffDelayDouble(attempt) == 1000 * Pow2(attempt)

\* 1000 * Math.pow(2, attempt - 1) milliseconds
backoffDelay(attempt) == 1000 * Pow2(attempt - 1)

\* what fetch can come to: a 2xx response, another response, a network
\* error, the abort after env.webhookTimeout
Outcomes == {"2xx", "non2xx", "error", "timeout"}

\* variant: every response counts as a success, whatever its status
sendWebhookAnyResponse(outcome) == outcome \in {"2xx", "non2xx"}

\* sendWebhook: true on response.ok, false on everything else (the catch
\* turns every exception into false)
sendWebhook(outcome) == outcome = "2xx"

\* the top of the for loop with the given attempt number: the next call of
\* sendWebhook, or the end of sendWebhookWithRetry
LoopTop(dl, attempt) ==
    IF loopTest(attempt, webhookRetryAttempts)
    THEN [dl EXCEPT !.pc = "fetch", !.attempt = attempt, !.made = @ + 1]
    ELSE [dl EXCEPT !.pc = "done", !.attempt = attempt]

\* variant: the empty list and '*' are not honoured
subscribedListed(events, event) == event \in events

\* events.length === 0 || events.includes(event) || events.includes('*')
subscribed(events, event) ==
    events = {} \/ event \in events \/ "*" \in events

\* if (x?.webhookUrl) { if (...) sendWebhookWithRetry(x.webhookUrl, payload) }
\* for one destination: the loop starts with attempt = 1, or nothing is
\* started for this event
startDelivery(cfg, event) ==
    IF cfg.url /\ subscribed(cfg.events, event)
    THEN LoopTop([IdleDelivery EXCEPT !.event = event], 1)
    ELSE [IdleDelivery EXCEPT !.pc = "skipped", !.event = event]

\* the relay does nothing for the receiver: its turns answer no request,
\* take up no item and call dispatchWebhook for nothing
RelayTurn ==
    /\ response' = NoResponse
    /\ item' = NoItem
    /\ emit' = NoEvent
    /\ sse' = NoSse
    /\ UNCHANGED <<webhookRetryAttempts, config, contacts, waMessages, ingest,
                   campaignVars, streams, sseClosed, verifyVars, mediaVars,
                   gatewayVars>>

\* the turn of dispatchWebhook after its two reads of the settings: both
\* tests and both calls of sendWebhookWithRetry, none of them awaited.  The
\* deliveries of one event are followed.
startDeliveries(event) ==
    /\ \A d \in Destinations : delivery[d].pc = "idle"
    /\ delivery' = [d \in Destinations |-> startDelivery(config[d], event)]
    /\ RelayTurn

\* a listener of setupWebhookListeners calls dispatchWebhook for an event
dispatchWebhook(event) ==
    /\ emit = NoEvent
    /\ startDeliveries(event)

\* variant: the destinations share the loop, a failure of one holds up the
\* other
FetchEndsShared(d, outcome) ==
    /\ delivery[d].pc = "fetch"
    /\ delivery' = [e \in Destinations |->
          IF outcome = "2xx" /\ e = d
          THEN [delivery[e] EXCEPT !.pc = "done", !.ok = TRUE]
          ELSE IF delivery[e].pc = "fetch"
          THEN [delivery[e] EXCEPT !.pc = "backoff",
                   !.slept = Append(@, backoffDelay(delivery[e].attempt))]
          ELSE delivery[e]]
    /\ RelayTurn

\* the fetch of sendWebhook ends; the turn after it returns, sleeps or goes
\* to the next attempt
FetchEnds(d, outcome) ==
    /\ delivery[d].pc = "fetch"
    /\ LET dl == [delivery[d] EXCEPT !.ok = @ \/ outcome = "2xx"] IN
         delivery' = [delivery EXCEPT ![d] =
            IF returnsOn(sendWebhook(outcome))
            THEN [dl EXCEPT !.pc = "done"]
            ELSE IF backoffTest(dl.attempt, webhookRetryAttempts)
            THEN [dl EXCEPT !.pc = "backoff",
                            !.slept = Append(@, backoffDelay(dl.attempt))]
            ELSE LoopTop(dl, dl.attempt + 1)]
    /\ RelayTurn

\* the timer of the backoff fires: attempt++ and the top of the loop
BackoffEnds(d) ==
    /\ delivery[d].pc = "backoff"
    /\ delivery' = [delivery EXCEPT ![d] =
                       LoopTop(delivery[d], delivery[d].attempt + 1)]
    /\ RelayTurn

NextRelay ==
    \/ \E event \in WAEvents : dispatchWebhook(event)
    \/ \E d \in Destinations, o \in Outcomes : FetchEnds(d, o)
    \/ \E d \in Destinations : BackoffEnds(d)

\* The relay alone, for every configured number of attempts and every
\* setting of the two destinations.  Every fetch ends (a response, an
\* error, or the abort after env.webhookTimeout) and every timer fires.
SpecRelay ==
    /\ \E n \in 0..MaxRetry, cfg \in Configs :
          /\ InitCampaign /\ InitWebhook /\ InitRelay(n, cfg)
          /\ InitSse /\ InitVerify(NoQuery)
    /\ [][NextRelay]_vars
    /\ \A d \in Destinations :
          WF_vars((\E o \in Outcomes : FetchEnds(d, o)) \/ BackoffEnds(d))

\* ------------------------------------------------------ SSE streams
\* if (data.instanceId === instanceId) in the handler of a stream: the
\* streams that write an event of the instance
sseTargets(instanceId) == {instanceId}

\* the number of streams of the instance ids in to with handlers registered
RECURSIVE Registered(_)
Registered(to) ==
    IF to = {} THEN 0
    ELSE LET i == CHOOSE j \in to : TRUE IN
           streams[i] + Registered(to \ {i})

\* the writes of the handlers that the streams have registered on waManager
\* for an event of the instance: every registered handler that passes the
\* test calls stream.writeSSE, n of them
sseWrite(event, instanceId) ==
    IF Registered(sseTargets(instanceId)) = 0 THEN NoSse
    ELSE [event |-> event, instanceId |-> instanceId,
          n |-> Registered(sseTargets(instanceId))]

\* the turns of the SSE route and of waManager answer no request, take up no
\* item and leave the store and the deliveries alone
SseTurn ==
    /\ response' = NoResponse
    /\ item' = NoItem
    /\ UNCHANGED <<contacts, waMessages, ingest, campaignVars, relayVars,
                   verifyVars, mediaVars, gatewayVars>>

\* GET /sse/:instanceId: the initial 'status' event is written to the new
\* stream and its handlers are registered
SseOpen(i) ==
    /\ streams[i] < MaxStreams
    /\ streams' = [streams EXCEPT ![i] = @ + 1]
    /\ sse' = [event |-> "status", instanceId |-> i, n |-> 1]
    /\ UNCHANGED sseClosed
    /\ emit' = NoEvent
    /\ SseTurn

\* The connection of a stream closes.  The route is inside await
\* stream.sleep(60000) of its while (true) loop: no code of the route runs
\* at the close, its handlers and its timer stay.
SseClose(i) ==
    /\ streams[i] - sseClosed[i] > 0
    /\ sseClosed' = [sseClosed EXCEPT ![i] = @ + 1]
    /\ sse' = NoSse
    /\ emit' = NoEvent
    /\ UNCHANGED streams
    /\ SseTurn

\* The loop of a closed stream is left and the finally block clears the
\* timer and removes the handlers.  The loop has no exit of its own: it is
\* left only if stream.sleep throws, which the route leaves to the
\* streaming library, so this step may come late or never.
SseCleanup(i) ==
    /\ sseClosed[i] > 0
    /\ streams' = [streams EXCEPT ![i] = @ - 1]
    /\ sseClosed' = [sseClosed EXCEPT ![i] = @ - 1]
    /\ sse' = NoSse
    /\ emit' = NoEvent
    /\ SseTurn

\* the keep-alive timer of a stream fires (it runs until the finally block)
SseKeepAlive(i) ==
    /\ streams[i] > 0
    /\ sse' = [event |-> "ping", instanceId |-> i, n |-> 1]
    /\ emit' = NoEvent
    /\ UNCHANGED <<streams, sseClosed>>
    /\ SseTurn

\* waManager.emit(event, {instanceId}) in connect ('ready') and disconnect
\* ('disconnected'): the listener of setupWebhookListeners calls
\* dispatchWebhook and the handlers of the open streams write the event
ManagerEmit(event) ==
    /\ event \in {"ready", "disconnected"}
    /\ emit' = Dispatch(event, "")
    /\ sse' = sseWrite(event, InstanceId)
    /\ UNCHANGED <<streams, sseClosed>>
    /\ SseTurn

\* the dispatchWebhook call of the step before goes on after its two reads
DispatchContinues(event) ==
    /\ emit # NoEvent
    /\ emit.event = event
    /\ startDeliveries(event)

\* the payloads of the receiver in front of the relay and of the streams:
\* messages and statuses of the instance with one provider id, from one
\* sender without a profile name
PipeMessages ==
    {it \in MessageItems :
        it.pn = KnownPhone /\ it.id = "wamid1" /\ it.pushName = ""}
PipeStatuses ==
    {it \in StatusItems :
        it.pn = KnownPhone /\ it.id = "wamid1" /\ it.status = "delivered"}

NextPipeline ==
    \/ \E parsed, waba, empty \in BOOLEAN : IngestReceive(parsed, waba, empty)
    \/ \E it \in PipeMessages, last \in BOOLEAN : IngestMessage(it, last)
    \/ \E c \in IngestStates : IngestCreateContact(c)
    \/ \E c \in IngestStates : IngestFindMessage(c)
    \/ \E c \in IngestStates : IngestCreateMessage(c)
    \/ \E it \in PipeStatuses, last \in BOOLEAN : IngestStatus(it, last)
    \/ \E event \in WAEvents : DispatchContinues(event)
    \/ \E d \in Destinations, o \in Outcomes : FetchEnds(d, o)
    \/ \E d \in Destinations : BackoffEnds(d)

\* two attempts per delivery, both destinations take every event, no
\* stream is open
InitPipeline ==
    /\ InitCampaign /\ InitWebhook /\ InitRelay(2, OpenConfig)
    /\ InitSse /\ InitVerify(NoQuery)

\* The receiver in front of the relay.
SpecPipeline == InitPipeline /\ [][NextPipeline]_vars

NextStreams ==
    \/ \E parsed, waba, empty \in BOOLEAN : IngestReceive(parsed, waba, empty)
    \/ \E it \in PipeMessages, last \in BOOLEAN : IngestMessage(it, last)
    \/ \E c \in IngestStates : IngestCreateContact(c)
    \/ \E c \in IngestStates : IngestFindMessage(c)
    \/ \E c \in IngestStates : IngestCreateMessage(c)
    \/ \E it \in PipeStatuses, last \in BOOLEAN : IngestStatus(it, last)
    \/ \E event \in WAEvents : ManagerEmit(event)
    \/ \E i \in SseInstances : SseOpen(i)
    \/ \E i \in SseInstances : SseClose(i)
    \/ \E i \in SseInstances : SseCleanup(i)
    \/ \E i \in SseInstances : SseKeepAlive(i)

\* The receiver and waManager in front of the SSE streams.
SpecStreams == InitPipeline /\ [][NextStreams]_vars

\* --------------------------------------------------------- GET /webhook
\* variant: hub.mode is not looked at
verifiedAnyMode(mode, token) == token = Secret

\* mode === 'subscribe' && token === env.adminToken
verified(mode, token) == mode = "subscribe" /\ token = Secret

\* challenge || ''
orEmpty(challenge) == IF challenge = Absent THEN "" ELSE challenge

\* c.text(challenge || '') or c.json({error: 'Forbidden'}, 403)
verifyAnswer(q) ==
    IF verified(q.mode, q.token)
    THEN [kind |-> "verify", code |-> 200, body |-> orEmpty(q.challenge)]
    ELSE [kind |-> "verify", code |-> 403, body |-> "Forbidden"]

\* the handler of GET /webhook
Verify ==
    /\ response = NoResponse
    /\ response' = verifyAnswer(query)
    /\ UNCHANGED <<campaign, messages, runningProcessors, sessions, proc, req,
                   attempts, sendLog, cancelledRunning, stopLog, webVars,
                   relayVars, sseVars, verifyVars, mediaVars, gatewayVars>>

NextVerify == Verify

\* one verification request, for every query
SpecVerify ==
    /\ \E q \in Queries :
          /\ InitCampaign /\ InitWebhook /\ InitRelay(1, OpenConfig)
          /\ InitSse /\ InitVerify(q)
    /\ [][NextVerify]_vars

\* ====================================================== the claims

Done(m) == messages[m] \in {"SENT", "FAILED"}
Count(kind, pc) == CopiesIn([kind |-> kind, pc |-> pc], req)
Answered(kind, code) == response = Answer(kind, code)

\* C1: at most one processCampaign loop is active for the campaign id at any
\* time, and a processCampaign call made by a start or resume handler while
\* a loop is active changes neither the store, nor the set of running
\* processors, nor any loop, nor the history of sends.
C1_SingleLoop ==
    /\ [](Cardinality(ActiveProcs) <= 1)
    /\ [][\A r \in ReqStates :
            (HFinish(r) /\ ActiveProcs # {})
            => UNCHANGED <<campaign, messages, runningProcessors, proc,
                           attempts>>]_vars

\* a start or resume handler has just called processCampaign and answered,
\* while the one active loop is in the middle of an iteration (a loop that
\* the call had started would be at its first findUnique)
C1_Witness ==
    /\ Answered("start", 200) \/ Answered("resume", 200)
    /\ Cardinality(ActiveProcs) = 1
    /\ \E p \in ProcIds : proc[p].pc = "send"

C3_CountersBounded == campaign.sent + campaign.failed <= campaign.total

\* one message sent, one failed, of a campaign of two
C3_Witness ==
    campaign.total = 2 /\ campaign.sent = 1 /\ campaign.failed = 1

C5_TerminalStatus ==
    [][campaign.status \in {"COMPLETED", "CANCELLED"}
         => campaign'.status = campaign.status]_vars

\* C6: every change of the stored status out of PENDING, RUNNING or PAUSED
\* follows PENDING->RUNNING, RUNNING->PAUSED, PAUSED->RUNNING,
\* RUNNING->COMPLETED or {PENDING, RUNNING, PAUSED}->CANCELLED
AllowedEdges ==
    {<<"PENDING", "RUNNING">>, <<"RUNNING", "PAUSED">>,
     <<"PAUSED", "RUNNING">>, <<"RUNNING", "COMPLETED">>,
     <<"PENDING", "CANCELLED">>, <<"RUNNING", "CANCELLED">>,
     <<"PAUSED", "CANCELLED">>}

C6_StatusEdges ==
    [][(campaign.status \in {"PENDING", "RUNNING", "PAUSED"}
          /\ campaign'.status # campaign.status)
         => <<campaign.status, campaign'.status>> \in AllowedEdges]_vars

\* C7: a control action whose precondition fails on the status it reads is
\* answered 400 and leaves the campaign row, the messages, the running
\* processors, the loops and the handlers in flight unchanged
ControlPrecondition(action, status) ==
    \/ action = "pause" /\ status = "RUNNING"
    \/ action = "resume" /\ status = "PAUSED"
    \/ action = "cancel" /\ status \notin {"COMPLETED", "CANCELLED"}

C7_InvalidControlRejected ==
    [][\A k \in {"pause", "resume", "cancel"} :
         (/\ Request(k)
          /\ campaign.status # "NONE"
          /\ ~ControlPrecondition(k, campaign.status))
         => /\ response' = Answer(k, 400)
            /\ UNCHANGED <<campaign, messages, runningProcessors, proc, req>>]_vars

\* a cancel of a finished campaign has just been answered 400
C7_Witness ==
    /\ Answered("cancel", 400)
    /\ campaign.status \in {"COMPLETED", "CANCELLED"}

\* C8 as stated: start goes on to its update only when the status it read
\* is PENDING and getStatus is 'connected' in the turn after the read;
\* otherwise it is answered 400, the row is unchanged with startedAt unset,
\* and no loop is started
\* a start handler goes past its status test, having read the row
StartReads == Count("start", "check")' > Count("start", "check")

\* a start handler that had passed the status test ...
StartHadRead == Count("start", "check")' < Count("start", "check")

\* ... goes past its getStatus test, to the update
StartPasses == Count("start", "update")' > Count("start", "update")

\* a start handler finds the status it read not PENDING, or getStatus not
\* 'connected'
StartFailsGuard ==
    \/ campaign.status \notin {"NONE", "PENDING"} /\ Request("start")
    \/ InstanceId \notin sessions /\ StartCheck([kind |-> "start",
                                                  pc |-> "check"])

C8_StartAsStated ==
    [][/\ StartReads => campaign.status = "PENDING"
       /\ StartPasses => StartHadRead /\ InstanceId \in sessions
       /\ StartFailsGuard
            => /\ response' = Answer("start", 400)
               /\ UNCHANGED <<campaign, messages, runningProcessors, proc>>
               /\ ~campaign'.startedAt]_vars

\* C8 amended: as C8, with startedAt left as it was (unset only if the
\* campaign was never started) in place of startedAt unset
C8_StartGuard ==
    [][/\ StartReads => campaign.status = "PENDING"
       /\ StartPasses => StartHadRead /\ InstanceId \in sessions
       /\ StartFailsGuard
            => /\ response' = Answer("start", 400)
               /\ UNCHANGED <<campaign, messages, runningProcessors, proc>>
               /\ campaign'.startedAt = campaign.startedAt]_vars

\* a start of a PENDING campaign has just been answered 400 because the
\* instance is not connected; no loop runs and startedAt is unset
C8_Witness ==
    /\ Answered("start", 400)
    /\ campaign.status = "PENDING" /\ ~campaign.startedAt
    /\ sessions = {} /\ ActiveProcs = {}

\* C9: once a cancel has been applied to a RUNNING campaign, the status is
\* CANCELLED and stays so, sentMessages keeps its value and every message
\* that is PENDING stays PENDING
C9_CancelFreezes ==
    [][cancelledRunning =>
         /\ campaign.status = "CANCELLED" /\ campaign'.status = "CANCELLED"
         /\ campaign'.sent = campaign.sent
         /\ \A m \in MsgIds :
               messages[m] = "PENDING" => messages'[m] = "PENDING"]_vars

\* C10: the campaign is never stored RUNNING with PENDING messages while no
\* loop is active and no accepted start or resume is still to call
\* processCampaign
C10_RunningHasLoop ==
    ~(/\ campaign.status = "RUNNING"
      /\ PendingMsgs(messages) # {}
      /\ ActiveProcs = {}
      /\ \A r \in InFlight : r.kind \notin {"start", "resume"})

C12_Completed ==
    /\ campaign.status = "COMPLETED"
    /\ campaign.sent = campaign.total
    /\ campaign.failed = 0
    /\ campaign.completedAt
    /\ ActiveProcs = {}
    /\ runningProcessors = {}

C12_StartCompletes == (campaign.status = "RUNNING") ~> C12_Completed

\* C13: the store holds at most one message row per provider message id,
\* whether the id is ingested twice in a row or by two calls at once.
C13_OneRowPerId == \A i \in WaMessageIds : waMessages[i].n <= 1

\* two calls took up the same new id: one has created the row, the create of
\* the other is still to come
C13_Witness ==
    \E c \in BagToSet(ingest) :
        /\ c.pc = "createMessage"
        /\ waMessages[c.id].n = 1

\* C14: ingesting a message whose provider id already has a row emits no
\* 'message' event (so that each id of a known instance yields exactly one).
C14_DuplicateSilent ==
    [][\A c \in IngestStates :
          (IngestFindMessage(c) /\ waMessages[c.id].n # 0)
              => emit' = NoEvent]_vars

\* C15: an item whose phone-number id matches no instance is a no-op: the
\* step that takes it up changes no contact and no message row, starts no
\* store operation for it, emits no event and answers no error (the call
\* goes on to its next item or answers ok).
C15_UnknownInstanceNoOp ==
    [][(item' # NoItem /\ item'.pn # KnownPhone) =>
          /\ UNCHANGED <<contacts, waMessages>>
          /\ emit' = NoEvent
          /\ response' \in {NoResponse, Answer("webhook", 200)}
          /\ \A d \in BagToSet(ingest') :
                d.pc # "next" => CopiesIn(d, ingest') <= CopiesIn(d, ingest)
      ]_vars

\* a call whose last item named an unknown phone-number id was answered ok
C15_Witness ==
    /\ item # NoItem
    /\ item.pn # KnownPhone
    /\ response = Answer("webhook", 200)

\* C16: a status update of a known instance whose id has no message row is
\* ingested without error: no message row changes and exactly the
\* 'message_ack' event of that id is emitted.
C16_UnknownStatusId ==
    [][(/\ item' # NoItem
        /\ item'.type = "status"
        /\ item'.pn = KnownPhone
        /\ waMessages[item'.id].n = 0) =>
          /\ waMessages' = waMessages
          /\ emit' = Dispatch("message_ack", item'.id)
          /\ response' \in {NoResponse, Answer("webhook", 200)}]_vars

C16_Witness ==
    /\ item # NoItem
    /\ item.type = "status"
    /\ item.pn = KnownPhone
    /\ waMessages[item.id].n = 0
    /\ emit = Dispatch("message_ack", item.id)

\* C17: the items of a payload are processed independently: when one item
\* fails, the items after it are still processed, that is, a call never
\* leaves through its catch before the last item of its payload.
C17_SiblingsProcessed ==
    [][\A c \in IngestStates :
          (c \in BagToSet(ingest) /\ Throw(c)) => c.last]_vars

\* C18: the error response is given to an unparseable body only; every call
\* whose body was parsed is answered {status: 'ok'}.
C18_OnlyUnparseableFails ==
    [][response' = Answer("webhook", 500) =>
          \E waba, empty \in BOOLEAN :
              IngestReceive(FALSE, waba, empty)]_vars

\* C19: sendWebhookWithRetry never makes more than maxAttempts attempts; when
\* every attempt fails it makes exactly maxAttempts of them and then ends
\* (it returns: nothing in it throws).
C19_ExactlyMaxAttempts ==
    /\ [](\A d \in Destinations :
            /\ delivery[d].made <= webhookRetryAttempts
            /\ (delivery[d].pc = "done" /\ ~delivery[d].ok)
                  => delivery[d].made = webhookRetryAttempts)
    /\ \A d \in Destinations :
          (delivery[d].pc \in {"fetch", "backoff"}) ~> (delivery[d].pc = "done")

\* every attempt failed, there was more than one, and the loop has ended
C19_Witness ==
    \E d \in Destinations :
        /\ delivery[d].pc = "done"
        /\ ~delivery[d].ok
        /\ webhookRetryAttempts >= 2
        /\ delivery[d].made = webhookRetryAttempts

\* C20: once an attempt has received a 2xx response, no further attempt and
\* no further backoff sleep is made for that event and destination: the
\* step that receives it ends the loop, and nothing follows.
C20_StopsOn2xx ==
    [][\A d \in Destinations :
          delivery'[d].ok =>
              /\ delivery'[d].pc = "done"
              /\ delivery'[d].made = delivery[d].made
              /\ delivery'[d].slept = delivery[d].slept]_vars

\* a 2xx came before the attempts were used up
C20_Witness ==
    \E d \in Destinations :
        /\ delivery[d].ok
        /\ delivery[d].pc = "done"
        /\ delivery[d].made = 2
        /\ webhookRetryAttempts = 3

\* C21: after failed attempt k < maxAttempts the relay sleeps 2^(k-1)
\* seconds before attempt k+1, and after the failed attempt k = maxAttempts
\* it does not sleep: the sleeps made so far are 1 s, 2 s, 4 s, ..., one per
\* failed attempt but the last possible one.
C21_Backoff ==
    \A d \in Destinations :
        LET dl == delivery[d] IN
        /\ \A k \in 1..Len(dl.slept) : dl.slept[k] = 1000 * 2^(k - 1)
        /\ dl.pc = "fetch" => Len(dl.slept) = dl.made - 1
        /\ dl.pc = "backoff" =>
              Len(dl.slept) = dl.made /\ dl.made < webhookRetryAttempts
        /\ (dl.pc = "done" /\ dl.ok) => Len(dl.slept) = dl.made - 1
        /\ (dl.pc = "done" /\ ~dl.ok /\ dl.made > 0) =>
              Len(dl.slept) = webhookRetryAttempts - 1

\* all three attempts failed: sleeps of 1 s and 2 s, none after the third
C21_Witness ==
    \E d \in Destinations :
        /\ delivery[d].pc = "done"
        /\ ~delivery[d].ok
        /\ delivery[d].made = 3
        /\ delivery[d].slept = <<1000, 2000>>

\* C22: dispatchWebhook starts a delivery to a destination exactly when the
\* destination has a URL and its own event list is empty, holds the name of
\* the event, or holds '*'; the list of the other destination plays no part.
C22_Filter ==
    \A d \in Destinations :
        delivery[d].pc # "idle" =>
            (delivery[d].pc # "skipped"
             <=> /\ config[d].url
                 /\ ~(/\ config[d].events # {}
                      /\ delivery[d].event \notin config[d].events
                      /\ "*" \notin config[d].events))

\* one event, two lists: the instance list names another event only, the
\* global list is the wildcard; the delivery to the global URL is under way
C22_Witness ==
    /\ config["instance"].url
    /\ config["instance"].events = {"message_ack"}
    /\ config["global"].events = {"*"}
    /\ delivery["instance"].pc = "skipped"
    /\ delivery["instance"].event = "message"
    /\ delivery["global"].pc = "fetch"

\* C23: the two deliveries of an event are independent.  Both loops are
\* started in the one turn of dispatchWebhook (each has made its first
\* attempt when the turn ends), a step of one delivery leaves the other as
\* it is, and a delivery that waits for its fetch or its timer can take its
\* step whatever the other is doing.
C23_Independent ==
    /\ [](\A d \in Destinations :
            /\ (delivery[d].pc \notin {"idle", "skipped"}
                /\ webhookRetryAttempts >= 1) => delivery[d].made >= 1
            /\ delivery[d].pc = "fetch" =>
                  \A o \in Outcomes : ENABLED FetchEnds(d, o)
            /\ delivery[d].pc = "backoff" => ENABLED BackoffEnds(d))
    /\ [][\A d, e \in Destinations :
            (d # e /\ delivery[d].pc # "idle" /\ delivery'[d] # delivery[d])
            => delivery'[e] = delivery[e]]_vars

\* the instance URL has failed twice and is in its second backoff, the global
\* URL has answered 2xx at the first attempt
C23_Witness ==
    /\ delivery["instance"].pc = "backoff"
    /\ delivery["instance"].made = 2
    /\ delivery["global"].pc = "done"
    /\ delivery["global"].ok
    /\ delivery["global"].made = 1

\* the next turn of the invocation c of POST /webhook
IngestStep(c) ==
    \/ \E it \in PipeMessages, last \in BOOLEAN :
          c = NextCall /\ IngestMessage(it, last)
    \/ \E it \in PipeStatuses, last \in BOOLEAN :
          c = NextCall /\ IngestStatus(it, last)
    \/ IngestCreateContact(c)
    \/ IngestFindMessage(c)
    \/ IngestCreateMessage(c)

\* C24: dispatch is fire-and-forget for the receiver.  An invocation of
\* POST /webhook can take its next turn whatever the deliveries are doing,
\* the turn that answers is no turn of a delivery, and no turn of a delivery
\* (a fetch ending in any way, the last failed one included, or a backoff
\* timer) changes the records, the invocations or an answer.
C24_FireAndForget ==
    /\ [](\A c \in IngestStates \cup {NextCall} :
            c \in BagToSet(ingest) => ENABLED IngestStep(c))
    /\ [][response'.kind = "webhook" => delivery' = delivery]_vars
    /\ [][delivery' # delivery =>
            /\ UNCHANGED <<contacts, waMessages, ingest>>
            /\ response' = NoResponse]_vars

\* the last call is answered {status: 'ok'} while the deliveries of an event
\* are under way and no attempt has succeeded: one fetch is out, the other
\* has failed and waits for its retry
C24_Witness ==
    /\ response = Answer("webhook", 200)
    /\ ingest = EmptyBag
    /\ delivery["instance"].pc = "fetch"
    /\ delivery["instance"].made = 1
    /\ delivery["global"].pc = "backoff"

\* C25: every event for which dispatchWebhook is called for the instance is
\* written, in the same step, to every open SSE stream of the instance.
C25_SameStream ==
    [][(emit' # NoEvent /\ streams[InstanceId] > 0)
       => sse' = [event |-> emit'.event, instanceId |-> InstanceId,
                  n |-> streams[InstanceId]]]_vars

\* C26: GET /webhook answers 200 with the challenge as it came exactly when
\* hub.mode is 'subscribe' and hub.verify_token is the configured secret (an
\* absent challenge gives an empty body), and 403 in every other case.
C26_Verification ==
    response.kind = "verify" =>
        IF query.mode = "subscribe" /\ query.token = Secret
        THEN /\ response.code = 200
             /\ response.body =
                   (IF query.challenge = Absent THEN "" ELSE query.challenge)
        ELSE response.code = 403

\* a verification that passed and returned the challenge
C26_Witness ==
    /\ response.kind = "verify"
    /\ response.code = 200
    /\ query.challenge = "1158201444"
    /\ response.body = "1158201444"

\* the loop p takes a turn from the position pc
Turn(p, pc) == proc[p].pc = pc /\ proc'[p] # proc[p]

\* C27: a loop that reads RUNNING while the instance is not connected stores
\* PAUSED and exits without a send: from the status test it goes to the
\* PAUSED update, from there to its exit, and none of the three turns marks
\* a message, changes a counter or calls the gateway; the PENDING messages
\* stay PENDING.
C27_DisconnectPauses ==
    [][\A p \in ProcIds :
          /\ (Turn(p, "checkStatus") /\ proc[p].cstatus = "RUNNING"
              /\ InstanceId \notin sessions)
             => /\ proc'[p].pc = "updPaused"
                /\ UNCHANGED <<campaign, messages, attempts>>
          /\ Turn(p, "updPaused")
             => /\ proc'[p].pc = "exit"
                /\ campaign' = [campaign EXCEPT !.status = "PAUSED"]
                /\ UNCHANGED <<messages, attempts>>
          /\ (Turn(p, "exit") /\ campaign.status = "PAUSED")
             => /\ proc'[p] = IdleProc
                /\ UNCHANGED <<campaign, messages, attempts>>]_vars

\* the loop has stored PAUSED in the middle of the campaign and is about to
\* exit: one message is done, one is PENDING, the instance is not connected
C27_Witness ==
    \E p \in ProcIds :
        /\ proc[p].pc = "exit"
        /\ campaign.status = "PAUSED"
        /\ InstanceId \notin sessions
        /\ Done(1) /\ messages[2] = "PENDING"

C29_BoundedLatency ==
    /\ [](stopLog.on => stopLog.sends <= 1)
    /\ [][\A p \in ProcIds :
            (Turn(p, "checkStatus")
             /\ proc[p].cstatus \in {"PAUSED", "CANCELLED"})
            => /\ proc'[p] = IdleProc
               /\ UNCHANGED <<campaign, messages, attempts>>]_vars

\* a pause was committed after the iteration had passed its status test: the
\* send went out, and the loop has now read PAUSED
C29_Witness ==
    \E p \in ProcIds :
        /\ stopLog.on /\ stopLog.sends = 1
        /\ campaign.status = "PAUSED"
        /\ proc[p].pc = "checkStatus"
        /\ proc[p].cstatus = "PAUSED"

\* C30: within one run of the loop exactly one pacing sleep lies between two
\* consecutive sends: a send of a run that has sent before finds one sleep
\* since that send.
C30_Paced ==
    [][\A p \in ProcIds :
          (Turn(p, "send") /\ proc[p].sent) => proc[p].sleeps = 1]_vars

\* a run has sent the first message and slept once, and is about to send the
\* second
C30_Witness ==
    \E p \in ProcIds :
        /\ proc[p].pc = "send"
        /\ proc[p].sent /\ proc[p].sleeps = 1
        /\ proc[p].msg = 2
        /\ attempts[1] = 1 /\ attempts[2] = 0

\* C31: no step lowers sentMessages or failedMessages, and from the creation
\* on totalMessages keeps its value, which is the number of message rows
\* created with the campaign.
C31_Monotonic ==
    /\ [](campaign.status # "NONE" =>
            campaign.total = Cardinality({m \in MsgIds : messages[m] # "NONE"}))
    /\ [][/\ campaign'.sent >= campaign.sent
          /\ campaign'.failed >= campaign.failed
          /\ campaign.status # "NONE" => campaign'.total = campaign.total]_vars

\* a campaign of two was started, has sent one message and was paused by a
\* control action
C31_Witness ==
    /\ campaign.status = "PAUSED"
    /\ campaign.startedAt
    /\ campaign.total = 2
    /\ campaign.sent = 1
    /\ Answered("pause", 200)


\* C32: there is at most one contact per sender of the instance, a contact
\* is created only where the sender had none, by the contact.create of a
\* message of that sender, and no call leaves through the catch at its
\* contact.create (two first messages of a new sender taken up together
\* neither make two contacts nor fail a call).
C32_OneContact ==
    /\ [](\A w \in WaIds : contacts[w].n <= 1)
    /\ [][\A w \in WaIds :
            contacts'[w].n > contacts[w].n =>
                /\ contacts[w].n = 0
                /\ \E c \in IngestStates :
                      c.from = w /\ IngestCreateContact(c)]_vars
    /\ [][\A c \in IngestStates :
            (c \in BagToSet(ingest) /\ c.pc = "createContact")
                => ~Throw(c)]_vars

\* what the provider status reads in capitals
Uppercased(st) ==
    CASE st = "sent" -> "SENT" [] st = "delivered" -> "DELIVERED"
      [] st = "read" -> "READ" [] st = "failed" -> "FAILED"

\* C33: a status update whose id has a message row sets the status of that
\* row to the provider status in capitals, stamps deliveredAt for
\* 'delivered' only and readAt for 'read' only, and leaves every other row
\* (and every contact) as it was.
C33_StatusApplied ==
    [][\A it \in StatusUpdates :
          (IngestStatus(it, TRUE) /\ waMessages[it.id].n >= 1) =>
              /\ waMessages'[it.id] =
                    [n |-> waMessages[it.id].n,
                     status |-> Uppercased(it.status),
                     deliveredAt |-> (waMessages[it.id].deliveredAt
                                        \/ it.status = "delivered"),
                     readAt |-> (waMessages[it.id].readAt
                                   \/ it.status = "read")]
              /\ \A j \in WaMessageIds \ {it.id} :
                    waMessages'[j] = waMessages[j]
              /\ contacts' = contacts]_vars

\* a 'read' was applied to the row of one id while the other id has its row
\* as ingested
C33_Witness ==
    /\ item # NoItem /\ item.type = "status"
    /\ response = Answer("webhook", 200)
    /\ waMessages[item.id] =
          [n |-> 1, status |-> "READ", deliveredAt |-> FALSE, readAt |-> TRUE]
    /\ \E j \in WaMessageIds \ {item.id} :
          waMessages[j] = [n |-> 1, status |-> "DELIVERED",
                           deliveredAt |-> FALSE, readAt |-> FALSE]

\* the order of the delivery statuses
Rank(st) == CASE st = "SENT" -> 1 [] st = "DELIVERED" -> 2 [] st = "READ" -> 3

\* C40: no step moves the status of a message row backwards in the order
\* SENT < DELIVERED < READ; in particular a row that is READ stays READ when
\* a 'sent' or a 'delivered' of its id arrives later.
C40_NeverBackwards ==
    [][\A i \in WaMessageIds :
          (/\ waMessages[i].status \in {"SENT", "DELIVERED", "READ"}
           /\ waMessages'[i].status \in {"SENT", "DELIVERED", "READ"})
              => Rank(waMessages'[i].status) >= Rank(waMessages[i].status)
      ]_vars

\* the download of id i ends in its catch in this step
DownloadFails(i) == media[i].pc # "failed" /\ media'[i].pc = "failed"

\* C34: a download is scheduled only by the step that creates the row of a
\* message with media (so never for a duplicate, and at most once per id),
\* it is under way only while the row exists, the creating step goes on
\* with the call without waiting for it, and the step in which a download
\* fails answers no request and changes no row, no mediaUrl and no call.
C34_DetachedDownload ==
    /\ [](\A i \in WaMessageIds :
            /\ media[i].n <= 1
            /\ media[i].pc # "none" => waMessages[i].n = 1)
    /\ [][\A i \in WaMessageIds :
            media'[i].n > media[i].n =>
                /\ typeOf(i) = "image"
                /\ waMessages[i].n = 0 /\ waMessages'[i].n = 1
                /\ media'[i].pc = "download"
                /\ \/ response' = Answer("webhook", 200)
                   \/ NextCall \in BagToSet(ingest')]_vars
    /\ [][\A i \in WaMessageIds :
            DownloadFails(i) =>
                /\ response' = NoResponse
                /\ media'[i].mediaUrl = media[i].mediaUrl
                /\ UNCHANGED <<waMessages, contacts, ingest>>]_vars

\* the download of the image has failed, its row keeps the mediaUrl it was
\* created with, and a later call for the same id was answered ok without
\* a second download
C34_Witness ==
    /\ media["wamid2"] = [mediaUrl |-> "id", pc |-> "failed", n |-> 1]
    /\ waMessages["wamid2"].n = 1
    /\ emit = Dispatch("message", "wamid2")
    /\ response = Answer("webhook", 200)

\* C35: an attempt succeeds exactly on a 2xx response: it then ends the
\* delivery as delivered.  A response of another status, a network error and
\* the abort at the timeout are each one failed attempt and nothing more:
\* the delivery is not marked delivered, no attempt is added by the step,
\* and the loop goes on as after any failure, to the backoff when attempts
\* are left and to its end when none is.
C35_AttemptOutcome ==
    [][\A d \in Destinations, outcome \in Outcomes :
          FetchEnds(d, outcome) =>
              IF outcome = "2xx"
              THEN /\ delivery'[d].pc = "done"
                   /\ delivery'[d].ok
                   /\ delivery'[d].made = delivery[d].made
              ELSE /\ delivery'[d].ok = delivery[d].ok
                   /\ delivery'[d].made = delivery[d].made
                   /\ delivery'[d].pc =
                         IF delivery[d].attempt < webhookRetryAttempts
                         THEN "backoff" ELSE "done"]_vars

\* of the two deliveries of an event one was answered 2xx at once, the
\* other has failed both of its two attempts
C35_Witness ==
    /\ webhookRetryAttempts = 2
    /\ delivery["instance"].pc = "done" /\ delivery["instance"].ok
    /\ delivery["instance"].made = 1
    /\ delivery["global"].pc = "done" /\ ~delivery["global"].ok
    /\ delivery["global"].made = 2

\* C36: whatever is written in a step is written for an instance id to
\* streams of that id whose connection is open: the handlers of the streams
\* of another id do not write it, and no handler of a closed stream is left
\* to write it (nor a keep-alive).
C36_OnlyOpenOwn ==
    [][sse' # NoSse =>
          sse'.n <= streams'[sse'.instanceId] - sseClosed'[sse'.instanceId]
      ]_vars

\* C37: a provider request issued once the credentials route has gone on
\* after its update carries the stored access token, never an older one of
\* the cache; in particular the update leaves no older session cached.
C37_FreshCredentials ==
    /\ [][credentials' # credentials =>
            sessionToken' \in {0, credentials'}]_vars
    /\ [][(/\ request' # NoRequest
           /\ \A c \in BagToSet(gw') : c.pc # "route")
              => request'.token = credentials']_vars

\* C39: getStatus answers 'connected' only when the connect or disconnect
\* that ended last was a connect that succeeded, whatever sends are made.
C39_StatusFollowsConnect ==
    getStatus(InstanceId) = "connected" => lastOp = "connect"

\* the loop p is between a send and the last write that records it
Recording(p) ==
    proc[p].pc \in {"markSent", "incSent", "markFailed", "incFailed"}

\* C38: while no loop is recording a send, sentMessages is the number of
\* messages the provider took and failedMessages the number it refused; and
\* no message the provider took is ever stored as FAILED.
C38_CountersMatchSends ==
    /\ (\A p \in ProcIds : ~Recording(p)) =>
          /\ campaign.sent = Cardinality(sendLog.ok)
          /\ campaign.failed = Cardinality(sendLog.failed)
    /\ \A m \in sendLog.ok : messages[m] # "FAILED"
====
